---- MODULE Spec2Model ----
(***************************************************************************)
(* Model of package shutdown (src/shutdown.go): the Shutdowner type, its   *)
(* mutex, counter, flag and closed channel, the Middleware-wrapped         *)
(* handler and the Shutdown call.                                          *)
(*                                                                         *)
(* Each Middleware invocation is a process h in Handlers, each Shutdown    *)
(* call a process c in Calls. A process's position (hpc, spc) names the    *)
(* source line it is about to execute. Statements that run while the       *)
(* mutex is held are kept as separate steps (load and store of the         *)
(* counter included), so that mutual exclusion is something the model      *)
(* derives from the lock and does not assume.                              *)
(***************************************************************************)
EXTENDS Integers, FiniteSets, Sequences

\* Number of Middleware invocations (concurrent requests) in a run.
MaxHandlers == 2
\* Number of Shutdown calls in a run; call c+1 starts after call c returned.
MaxCalls == 2

Handlers == 1..MaxHandlers
Calls == 1..MaxCalls

\* http.StatusServiceUnavailable
StatusServiceUnavailable == 503

\* The values ctx.Err() can return once ctx.Done() is closed.
CtxErrors == {"DeadlineExceeded", "Canceled"}

VARIABLES
    lock,               \* g.lock: TRUE while the mutex is held
    closed,             \* g.closed: "nil", "open" or "closed"
    shutdownRequested,  \* g.shutdownRequested
    activeConnections,  \* g.activeConnections
    hpc,                \* position of each Middleware invocation
    hreg,               \* the counter value loaded for ++ / -- (0 outside the statement)
    added,              \* what addActiveConnection returned: "none", "true", "false"
    status,             \* status written by the wrapper (0: none)
    nextCalled,         \* next.ServeHTTP was invoked
    hpanic,             \* the invocation is unwinding with a panic
    removes,            \* removeActiveConnection calls made by the invocation
    spc,                \* position of each Shutdown call
    ctxErr,             \* ctx.Err() of the call's context: "nil" until the context is done
    ret,                \* value returned by the call: "none", "nil" or a ctx error
    sawActive,          \* activeConnections as read by the call at its check (-1: not yet)
    closeCalls,         \* number of close(g.closed) statements executed
    jpc,                \* position of the ShutdownWithServer call
    jwg,                \* counter of ShutdownWithServer's local WaitGroup
    serverErr,          \* ShutdownWithServer's variable serverErr
    shutdownerErr,      \* ShutdownWithServer's variable shutdownerErr
    jret,               \* what ShutdownWithServer returned: the joined errors (<<>>: nil)
    wpc,                \* WaitGroup variant: position of each Middleware invocation
    wgCount,            \* WaitGroup variant: counter of g.wg
    wspc,               \* WaitGroup variant: position of the Shutdown call
    wd,                 \* WaitGroup variant: Shutdown's channel d: "none", "open", "closed"
    wret,               \* WaitGroup variant: value returned by Shutdown
    cleanStart,         \* no invocation was between its entry and its admission when Shutdown was called
    lateEntry           \* an invocation began after Shutdown was called

hvars == <<hpc, hreg, added, status, nextCalled, hpanic, removes>>
svars == <<spc, ctxErr, ret, sawActive>>
gvars == <<lock, closed, shutdownRequested, activeConnections, closeCalls>>
jvars == <<jpc, jwg, serverErr, shutdownerErr, jret>>
wvars == <<wpc, wgCount, wspc, wd, wret, cleanStart, lateEntry>>
vars == <<lock, closed, shutdownRequested, activeConnections, hpc, hreg, added,
          status, nextCalled, hpanic, removes, spc, ctxErr, ret,
          sawActive, closeCalls, jpc, jwg, serverErr, shutdownerErr, jret,
          wpc, wgCount, wspc, wd, wret, cleanStart, lateEntry>>

\* close(ch) panics on a nil channel and on a channel that is already closed.
ClosePanics(ch) == ch \in {"nil", "closed"}

\* A receive from ch is ready only when ch is closed (a nil channel never is).
RecvReady(ch) == ch = "closed"

\* ctx.Done() of call c's context is closed exactly when ctx.Err() is not nil.
CtxIsDone(c) == ctxErr[c] # "nil"

\* ShutdownWithServer has not been called: serverErr and shutdownerErr are
\* declared nil.
NotJoining ==
    /\ jpc = "idle"
    /\ jwg = 0
    /\ serverErr = "nil"
    /\ shutdownerErr = "nil"
    /\ jret = <<>>

\* The WaitGroup variant of Shutdowner as declared: g.wg at 0, nothing called.
VariantIdle ==
    /\ wpc = [h \in Handlers |-> "idle"]
    /\ wgCount = 0
    /\ wspc = "idle"
    /\ wd = "none"
    /\ wret = "none"
    /\ cleanStart = TRUE
    /\ lateEntry = FALSE

\* NewShutdowner: closed is made, the other fields have their zero values.
NewShutdowner ==
    /\ lock = FALSE
    /\ closed = "open"
    /\ shutdownRequested = FALSE
    /\ activeConnections = 0

\* var shutdowner shutdown.Shutdowner: every field has its zero value, the
\* channel is nil.
ZeroValue ==
    /\ lock = FALSE
    /\ closed = "nil"
    /\ shutdownRequested = FALSE
    /\ activeConnections = 0

Init ==
    /\ NewShutdowner
    /\ hpc = [h \in Handlers |-> "idle"]
    /\ hreg = [h \in Handlers |-> 0]
    /\ added = [h \in Handlers |-> "none"]
    /\ status = [h \in Handlers |-> 0]
    /\ nextCalled = [h \in Handlers |-> FALSE]
    /\ hpanic = [h \in Handlers |-> FALSE]
    /\ removes = [h \in Handlers |-> 0]
    /\ spc = [c \in Calls |-> "idle"]
    /\ ctxErr = [c \in Calls |-> "nil"]
    /\ ret = [c \in Calls |-> "none"]
    /\ sawActive = [c \in Calls |-> -1]
    /\ closeCalls = 0
    /\ NotJoining
    /\ VariantIdle

----------------------------------------------------------------------------
(* The Middleware-wrapped handler *)

\* A request arrives: the wrapped handler is invoked and calls addActiveConnection.
HandlerInvoke(h) ==
    /\ hpc[h] = "idle"
    /\ hpc' = [hpc EXCEPT ![h] = "add_lock"]
    /\ UNCHANGED <<hreg, added, status, nextCalled, hpanic, removes>>
    /\ UNCHANGED gvars
    /\ UNCHANGED svars
    /\ UNCHANGED <<jvars, wvars>>

\* AddLock with a Lock that does not wait for the mutex to be released.
AddLock_NoMutex(h) ==
    /\ hpc[h] = "add_lock"
    /\ lock' = TRUE
    /\ hpc' = [hpc EXCEPT ![h] = "add_check"]
    /\ UNCHANGED <<closed, shutdownRequested, activeConnections, closeCalls>>
    /\ UNCHANGED <<hreg, added, status, nextCalled, hpanic, removes>>
    /\ UNCHANGED svars
    /\ UNCHANGED <<jvars, wvars>>

\* addActiveConnection: g.lock.Lock()
AddLock(h) ==
    /\ hpc[h] = "add_lock"
    /\ lock = FALSE
    /\ lock' = TRUE
    /\ hpc' = [hpc EXCEPT ![h] = "add_check"]
    /\ UNCHANGED <<closed, shutdownRequested, activeConnections, closeCalls>>
    /\ UNCHANGED <<hreg, added, status, nextCalled, hpanic, removes>>
    /\ UNCHANGED svars
    /\ UNCHANGED <<jvars, wvars>>

\* AddCheck without the test of g.shutdownRequested.
AddCheck_NoTest(h) ==
    /\ hpc[h] = "add_check"
    /\ hpc' = [hpc EXCEPT ![h] = "add_load"]
    /\ UNCHANGED gvars
    /\ UNCHANGED <<hreg, added, status, nextCalled, hpanic, removes>>
    /\ UNCHANGED svars
    /\ UNCHANGED <<jvars, wvars>>

\* addActiveConnection: if g.shutdownRequested { return false } (the deferred
\* Unlock runs at the return)
AddCheck(h) ==
    /\ hpc[h] = "add_check"
    /\ IF shutdownRequested
         THEN /\ added' = [added EXCEPT ![h] = "false"]
              /\ lock' = FALSE
              /\ hpc' = [hpc EXCEPT ![h] = "reject"]
         ELSE /\ hpc' = [hpc EXCEPT ![h] = "add_load"]
              /\ UNCHANGED <<added, lock>>
    /\ UNCHANGED <<closed, shutdownRequested, activeConnections, closeCalls>>
    /\ UNCHANGED <<hreg, status, nextCalled, hpanic, removes>>
    /\ UNCHANGED svars
    /\ UNCHANGED <<jvars, wvars>>

\* addActiveConnection: g.activeConnections++ (the load)
AddLoad(h) ==
    /\ hpc[h] = "add_load"
    /\ hreg' = [hreg EXCEPT ![h] = activeConnections]
    /\ hpc' = [hpc EXCEPT ![h] = "add_store"]
    /\ UNCHANGED <<added, status, nextCalled, hpanic, removes>>
    /\ UNCHANGED gvars
    /\ UNCHANGED svars
    /\ UNCHANGED <<jvars, wvars>>

\* addActiveConnection: g.activeConnections++ (the store); return true, with
\* the deferred Unlock
AddStore(h) ==
    /\ hpc[h] = "add_store"
    /\ activeConnections' = hreg[h] + 1
    /\ hreg' = [hreg EXCEPT ![h] = 0]
    /\ added' = [added EXCEPT ![h] = "true"]
    /\ lock' = FALSE
    /\ hpc' = [hpc EXCEPT ![h] = "admitted"]
    /\ UNCHANGED <<closed, shutdownRequested, closeCalls>>
    /\ UNCHANGED <<status, nextCalled, hpanic, removes>>
    /\ UNCHANGED svars
    /\ UNCHANGED <<jvars, wvars>>

\* Reject without the return after WriteHeader: the wrapper goes on to the
\* deferred removal and the inner handler.
Reject_NoReturn(h) ==
    /\ hpc[h] = "reject"
    /\ status' = [status EXCEPT ![h] = StatusServiceUnavailable]
    /\ hpc' = [hpc EXCEPT ![h] = "admitted"]
    /\ UNCHANGED <<hreg, added, nextCalled, hpanic, removes>>
    /\ UNCHANGED gvars
    /\ UNCHANGED svars
    /\ UNCHANGED <<jvars, wvars>>

\* Middleware: addActiveConnection returned false:
\* w.WriteHeader(http.StatusServiceUnavailable); return
Reject(h) ==
    /\ hpc[h] = "reject"
    /\ status' = [status EXCEPT ![h] = StatusServiceUnavailable]
    /\ hpc' = [hpc EXCEPT ![h] = "done"]
    /\ UNCHANGED <<hreg, added, nextCalled, hpanic, removes>>
    /\ UNCHANGED gvars
    /\ UNCHANGED svars
    /\ UNCHANGED <<jvars, wvars>>

\* Middleware: defer g.removeActiveConnection(); next.ServeHTTP(w, r)
ServeNext(h) ==
    /\ hpc[h] = "admitted"
    /\ nextCalled' = [nextCalled EXCEPT ![h] = TRUE]
    /\ hpc' = [hpc EXCEPT ![h] = "serve"]
    /\ UNCHANGED <<hreg, added, status, hpanic, removes>>
    /\ UNCHANGED gvars
    /\ UNCHANGED svars
    /\ UNCHANGED <<jvars, wvars>>

\* The inner handler returns: the deferred removeActiveConnection is called.
HandlerReturn(h) ==
    /\ hpc[h] = "serve"
    /\ removes' = [removes EXCEPT ![h] = removes[h] + 1]
    /\ hpc' = [hpc EXCEPT ![h] = "rem_lock"]
    /\ UNCHANGED <<hreg, added, status, nextCalled, hpanic>>
    /\ UNCHANGED gvars
    /\ UNCHANGED svars
    /\ UNCHANGED <<jvars, wvars>>

\* HandlerPanic with removeActiveConnection called after next.ServeHTTP
\* without defer: the panic skips it.
HandlerPanic_NoDefer(h) ==
    /\ hpc[h] = "serve"
    /\ hpanic' = [hpanic EXCEPT ![h] = TRUE]
    /\ hpc' = [hpc EXCEPT ![h] = "done"]
    /\ UNCHANGED <<hreg, added, status, nextCalled, removes>>
    /\ UNCHANGED gvars
    /\ UNCHANGED svars
    /\ UNCHANGED <<jvars, wvars>>

\* The inner handler panics: the deferred removeActiveConnection is called
\* while the panic unwinds.
HandlerPanic(h) ==
    /\ hpc[h] = "serve"
    /\ hpanic' = [hpanic EXCEPT ![h] = TRUE]
    /\ removes' = [removes EXCEPT ![h] = removes[h] + 1]
    /\ hpc' = [hpc EXCEPT ![h] = "rem_lock"]
    /\ UNCHANGED <<hreg, added, status, nextCalled>>
    /\ UNCHANGED gvars
    /\ UNCHANGED svars
    /\ UNCHANGED <<jvars, wvars>>

\* removeActiveConnection: g.lock.Lock()
RemLock(h) ==
    /\ hpc[h] = "rem_lock"
    /\ lock = FALSE
    /\ lock' = TRUE
    /\ hpc' = [hpc EXCEPT ![h] = "rem_load"]
    /\ UNCHANGED <<closed, shutdownRequested, activeConnections, closeCalls>>
    /\ UNCHANGED <<hreg, added, status, nextCalled, hpanic, removes>>
    /\ UNCHANGED svars
    /\ UNCHANGED <<jvars, wvars>>

\* removeActiveConnection: g.activeConnections-- (the load)
RemLoad(h) ==
    /\ hpc[h] = "rem_load"
    /\ hreg' = [hreg EXCEPT ![h] = activeConnections]
    /\ hpc' = [hpc EXCEPT ![h] = "rem_store"]
    /\ UNCHANGED <<added, status, nextCalled, hpanic, removes>>
    /\ UNCHANGED gvars
    /\ UNCHANGED svars
    /\ UNCHANGED <<jvars, wvars>>

\* removeActiveConnection: g.activeConnections-- (the store)
RemStore(h) ==
    /\ hpc[h] = "rem_store"
    /\ activeConnections' = hreg[h] - 1
    /\ hreg' = [hreg EXCEPT ![h] = 0]
    /\ hpc' = [hpc EXCEPT ![h] = "rem_check"]
    /\ UNCHANGED <<lock, closed, shutdownRequested, closeCalls>>
    /\ UNCHANGED <<added, status, nextCalled, hpanic, removes>>
    /\ UNCHANGED svars
    /\ UNCHANGED <<jvars, wvars>>

\* RemCheck that closes whenever the counter is 0, shutdown requested or not.
RemCheck_NoRequestTest(h) ==
    /\ hpc[h] = "rem_check"
    /\ IF activeConnections = 0
         THEN /\ closeCalls' = closeCalls + 1
              /\ IF ClosePanics(closed)
                   THEN /\ hpanic' = [hpanic EXCEPT ![h] = TRUE]
                        /\ UNCHANGED closed
                   ELSE /\ closed' = "closed"
                        /\ UNCHANGED hpanic
         ELSE UNCHANGED <<closed, closeCalls, hpanic>>
    /\ lock' = FALSE
    /\ hpc' = [hpc EXCEPT ![h] = "done"]
    /\ UNCHANGED <<shutdownRequested, activeConnections>>
    /\ UNCHANGED <<hreg, added, status, nextCalled, removes>>
    /\ UNCHANGED svars
    /\ UNCHANGED <<jvars, wvars>>

\* RemCheck that never closes the channel.
RemCheck_NoClose(h) ==
    /\ hpc[h] = "rem_check"
    /\ lock' = FALSE
    /\ hpc' = [hpc EXCEPT ![h] = "done"]
    /\ UNCHANGED <<closed, closeCalls, shutdownRequested, activeConnections>>
    /\ UNCHANGED <<hreg, added, status, nextCalled, hpanic, removes>>
    /\ UNCHANGED svars
    /\ UNCHANGED <<jvars, wvars>>

\* removeActiveConnection: if g.shutdownRequested && g.activeConnections == 0
\* { close(g.closed) }; the deferred Unlock runs at the return and also when
\* close panics.
RemCheck(h) ==
    /\ hpc[h] = "rem_check"
    /\ IF shutdownRequested /\ activeConnections = 0
         THEN /\ closeCalls' = closeCalls + 1
              /\ IF ClosePanics(closed)
                   THEN /\ hpanic' = [hpanic EXCEPT ![h] = TRUE]
                        /\ UNCHANGED closed
                   ELSE /\ closed' = "closed"
                        /\ UNCHANGED hpanic
         ELSE UNCHANGED <<closed, closeCalls, hpanic>>
    /\ lock' = FALSE
    /\ hpc' = [hpc EXCEPT ![h] = "done"]
    /\ UNCHANGED <<shutdownRequested, activeConnections>>
    /\ UNCHANGED <<hreg, added, status, nextCalled, removes>>
    /\ UNCHANGED svars
    /\ UNCHANGED <<jvars, wvars>>

----------------------------------------------------------------------------
(* Shutdown *)

\* Shutdown(ctx) is called. The caller passes any context: one that is not
\* done, or one whose deadline has elapsed or that was cancelled already. A further call is made only
\* after the previous one has returned.
SdCall(c) ==
    /\ spc[c] = "idle"
    /\ \A d \in Calls : d < c => spc[d] = "done"
    /\ \E e \in {"nil"} \cup CtxErrors : ctxErr' = [ctxErr EXCEPT ![c] = e]
    /\ spc' = [spc EXCEPT ![c] = "lock"]
    /\ UNCHANGED <<ret, sawActive>>
    /\ UNCHANGED gvars
    /\ UNCHANGED hvars
    /\ UNCHANGED <<jvars, wvars>>

\* The deadline of the call's context elapses, or the context is cancelled.
CtxDone(c) ==
    /\ spc[c] \in {"lock", "set", "check", "select"}
    /\ ~CtxIsDone(c)
    /\ \E e \in CtxErrors : ctxErr' = [ctxErr EXCEPT ![c] = e]
    /\ UNCHANGED <<spc, ret, sawActive>>
    /\ UNCHANGED gvars
    /\ UNCHANGED hvars
    /\ UNCHANGED <<jvars, wvars>>

\* Shutdown: g.lock.Lock()
SdLock(c) ==
    /\ spc[c] = "lock"
    /\ lock = FALSE
    /\ lock' = TRUE
    /\ spc' = [spc EXCEPT ![c] = "set"]
    /\ UNCHANGED <<closed, shutdownRequested, activeConnections, closeCalls>>
    /\ UNCHANGED <<ctxErr, ret, sawActive>>
    /\ UNCHANGED hvars
    /\ UNCHANGED <<jvars, wvars>>

\* SdSet that flips the flag instead of setting it.
SdSet_Toggle(c) ==
    /\ spc[c] = "set"
    /\ shutdownRequested' = ~shutdownRequested
    /\ spc' = [spc EXCEPT ![c] = "check"]
    /\ UNCHANGED <<lock, closed, activeConnections, closeCalls>>
    /\ UNCHANGED <<ctxErr, ret, sawActive>>
    /\ UNCHANGED hvars
    /\ UNCHANGED <<jvars, wvars>>

\* Shutdown: g.shutdownRequested = true
SdSet(c) ==
    /\ spc[c] = "set"
    /\ shutdownRequested' = TRUE
    /\ spc' = [spc EXCEPT ![c] = "check"]
    /\ UNCHANGED <<lock, closed, activeConnections, closeCalls>>
    /\ UNCHANGED <<ctxErr, ret, sawActive>>
    /\ UNCHANGED hvars
    /\ UNCHANGED <<jvars, wvars>>

\* SdCheck that closes the channel whatever the counter is.
SdCheck_AlwaysClose(c) ==
    /\ spc[c] = "check"
    /\ sawActive' = [sawActive EXCEPT ![c] = activeConnections]
    /\ closeCalls' = closeCalls + 1
    /\ IF ClosePanics(closed)
         THEN /\ spc' = [spc EXCEPT ![c] = "panicked"]
              /\ UNCHANGED <<closed, lock>>
         ELSE /\ closed' = "closed"
              /\ lock' = FALSE
              /\ spc' = [spc EXCEPT ![c] = "select"]
    /\ UNCHANGED <<shutdownRequested, activeConnections>>
    /\ UNCHANGED <<ctxErr, ret>>
    /\ UNCHANGED hvars
    /\ UNCHANGED <<jvars, wvars>>

\* SdCheck that leaves the closing to removeActiveConnection.
SdCheck_NeverClose(c) ==
    /\ spc[c] = "check"
    /\ sawActive' = [sawActive EXCEPT ![c] = activeConnections]
    /\ lock' = FALSE
    /\ spc' = [spc EXCEPT ![c] = "select"]
    /\ UNCHANGED <<closed, closeCalls>>
    /\ UNCHANGED <<shutdownRequested, activeConnections>>
    /\ UNCHANGED <<ctxErr, ret>>
    /\ UNCHANGED hvars
    /\ UNCHANGED <<jvars, wvars>>

\* SdCheck that goes on to the select without releasing the mutex.
SdCheck_NoUnlock(c) ==
    /\ spc[c] = "check"
    /\ sawActive' = [sawActive EXCEPT ![c] = activeConnections]
    /\ IF activeConnections = 0
         THEN /\ closeCalls' = closeCalls + 1
              /\ IF ClosePanics(closed)
                   THEN /\ spc' = [spc EXCEPT ![c] = "panicked"]
                        /\ UNCHANGED closed
                   ELSE /\ closed' = "closed"
                        /\ spc' = [spc EXCEPT ![c] = "select"]
         ELSE /\ spc' = [spc EXCEPT ![c] = "select"]
              /\ UNCHANGED <<closed, closeCalls>>
    /\ UNCHANGED <<lock, shutdownRequested, activeConnections>>
    /\ UNCHANGED <<ctxErr, ret>>
    /\ UNCHANGED hvars
    /\ UNCHANGED <<jvars, wvars>>

\* Shutdown: if g.activeConnections == 0 { close(g.closed) }; g.lock.Unlock().
\* The Unlock is not deferred: a panic of close leaves the mutex held.
SdCheck(c) ==
    /\ spc[c] = "check"
    /\ sawActive' = [sawActive EXCEPT ![c] = activeConnections]
    /\ IF activeConnections = 0
         THEN /\ closeCalls' = closeCalls + 1
              /\ IF ClosePanics(closed)
                   THEN /\ spc' = [spc EXCEPT ![c] = "panicked"]
                        /\ UNCHANGED <<closed, lock>>
                   ELSE /\ closed' = "closed"
                        /\ lock' = FALSE
                        /\ spc' = [spc EXCEPT ![c] = "select"]
         ELSE /\ lock' = FALSE
              /\ spc' = [spc EXCEPT ![c] = "select"]
              /\ UNCHANGED <<closed, closeCalls>>
    /\ UNCHANGED <<shutdownRequested, activeConnections>>
    /\ UNCHANGED <<ctxErr, ret>>
    /\ UNCHANGED hvars
    /\ UNCHANGED <<jvars, wvars>>

\* Shutdown: select { case <-g.closed: return nil }
SdSelectClosed(c) ==
    /\ spc[c] = "select"
    /\ RecvReady(closed)
    /\ ret' = [ret EXCEPT ![c] = "nil"]
    /\ spc' = [spc EXCEPT ![c] = "done"]
    /\ UNCHANGED <<ctxErr, sawActive>>
    /\ UNCHANGED gvars
    /\ UNCHANGED hvars
    /\ UNCHANGED <<jvars, wvars>>

\* SdSelectCtx that returns nil when the context is done.
SdSelectCtx_ReturnsNil(c) ==
    /\ spc[c] = "select"
    /\ CtxIsDone(c)
    /\ ret' = [ret EXCEPT ![c] = "nil"]
    /\ spc' = [spc EXCEPT ![c] = "done"]
    /\ UNCHANGED <<ctxErr, sawActive>>
    /\ UNCHANGED gvars
    /\ UNCHANGED hvars
    /\ UNCHANGED <<jvars, wvars>>

\* Shutdown: select { case <-ctx.Done(): return ctx.Err() }. When both cases
\* are ready the select takes either.
SdSelectCtx(c) ==
    /\ spc[c] = "select"
    /\ CtxIsDone(c)
    /\ ret' = [ret EXCEPT ![c] = ctxErr[c]]
    /\ spc' = [spc EXCEPT ![c] = "done"]
    /\ UNCHANGED <<ctxErr, sawActive>>
    /\ UNCHANGED gvars
    /\ UNCHANGED hvars
    /\ UNCHANGED <<jvars, wvars>>

----------------------------------------------------------------------------
(* ShutdownWithServer *)

\* What server.Shutdown(ctx) of net/http can return: nil, the context's error
\* or an error of closing a listener.
ServerResults == {"nil", "DeadlineExceeded", "Canceled", "ListenerError"}

\* errors.Join returning only the first error that is not nil.
ErrorsJoin_FirstOnly(a, b) ==
    IF a # "nil" THEN <<a>> ELSE IF b # "nil" THEN <<b>> ELSE <<>>

\* errors.Join(a, b): the errors that are not nil, in order; nil (<<>>) when
\* both are nil.
ErrorsJoin(a, b) == SelectSeq(<<a, b>>, LAMBDA e : e # "nil")

\* ShutdownWithServer is called: wg.Add(1) and the go statement.
JCall ==
    /\ jpc = "idle"
    /\ spc[1] = "idle"
    /\ jwg' = 1
    /\ jpc' = "server"
    /\ UNCHANGED <<serverErr, shutdownerErr, jret>>
    /\ UNCHANGED <<gvars, hvars, svars, wvars>>

\* The goroutine calls g.Shutdown(ctx).
JGoShutdown ==
    /\ jpc # "idle"
    /\ SdCall(1)

\* The goroutine: shutdownerErr = g.Shutdown(ctx) has returned; the deferred
\* wg.Done() runs. When Shutdown panicked the deferred wg.Done() runs as well
\* and the panic, which nothing recovers, ends the program.
JGoFinish ==
    /\ jwg = 1
    /\ spc[1] \in {"done", "panicked"}
    /\ jwg' = 0
    /\ IF spc[1] = "done"
         THEN /\ shutdownerErr' = ret[1]
              /\ UNCHANGED jpc
         ELSE /\ jpc' = "crashed"
              /\ UNCHANGED shutdownerErr
    /\ UNCHANGED <<serverErr, jret>>
    /\ UNCHANGED <<gvars, hvars, svars, wvars>>

\* serverErr = server.Shutdown(ctx) returns.
JServerReturn ==
    /\ jpc = "server"
    /\ \E e \in ServerResults : serverErr' = e
    /\ jpc' = "wait"
    /\ UNCHANGED <<jwg, shutdownerErr, jret>>
    /\ UNCHANGED <<gvars, hvars, svars, wvars>>

\* JWait without the wait for the goroutine.
JWait_NoWait ==
    /\ jpc = "wait"
    /\ jpc' = "join"
    /\ UNCHANGED <<jwg, serverErr, shutdownerErr, jret>>
    /\ UNCHANGED <<gvars, hvars, svars, wvars>>

\* wg.Wait() returns.
JWait ==
    /\ jpc = "wait"
    /\ jwg = 0
    /\ jpc' = "join"
    /\ UNCHANGED <<jwg, serverErr, shutdownerErr, jret>>
    /\ UNCHANGED <<gvars, hvars, svars, wvars>>

\* return errors.Join(serverErr, shutdownerErr)
JReturn ==
    /\ jpc = "join"
    /\ jret' = ErrorsJoin(serverErr, shutdownerErr)
    /\ jpc' = "done"
    /\ UNCHANGED <<jwg, serverErr, shutdownerErr>>
    /\ UNCHANGED <<gvars, hvars, svars, wvars>>

----------------------------------------------------------------------------
(* The WaitGroup variant, run side by side with the mutex implementation: *)
(* request arrivals, the ends of the inner handlers, the Shutdown call and *)
(* the context are common to both, each implementation takes its own steps *)
(* in between.                                                              *)

\* The invocations of the mutex implementation that have entered the wrapper
\* and have not yet been admitted or refused.
Entering ==
    {h \in Handlers : hpc[h] \in {"add_lock", "add_check", "add_load", "add_store"}}

\* A request arrives at both wrapped handlers.
PairInvoke(h) ==
    /\ hpc[h] = "idle"
    /\ wpc[h] = "idle"
    /\ hpc' = [hpc EXCEPT ![h] = "add_lock"]
    /\ wpc' = [wpc EXCEPT ![h] = "add"]
    /\ lateEntry' = (lateEntry \/ spc[1] # "idle")
    /\ UNCHANGED <<hreg, added, status, nextCalled, hpanic, removes>>
    /\ UNCHANGED <<wgCount, wspc, wd, wret, cleanStart>>
    /\ UNCHANGED <<gvars, svars, jvars>>

\* Variant Middleware: g.wg.Add(1); defer g.wg.Done(); next.ServeHTTP(w, r)
WAdd(h) ==
    /\ wpc[h] = "add"
    /\ wgCount' = wgCount + 1
    /\ wpc' = [wpc EXCEPT ![h] = "serve"]
    /\ UNCHANGED <<wspc, wd, wret, cleanStart, lateEntry>>
    /\ UNCHANGED <<gvars, hvars, svars, jvars>>

\* The inner handler of request h returns, in each implementation that runs
\* it: the deferred removeActiveConnection and g.wg.Done() are called.
PairFinish(h) ==
    /\ wpc[h] = "serve"
    /\ hpc[h] = "serve" \/ (hpc[h] = "done" /\ added[h] = "false")
    /\ wpc' = [wpc EXCEPT ![h] = "wdone"]
    /\ IF hpc[h] = "serve"
         THEN /\ removes' = [removes EXCEPT ![h] = removes[h] + 1]
              /\ hpc' = [hpc EXCEPT ![h] = "rem_lock"]
         ELSE UNCHANGED <<removes, hpc>>
    /\ UNCHANGED <<hreg, added, status, nextCalled, hpanic>>
    /\ UNCHANGED <<wgCount, wspc, wd, wret, cleanStart, lateEntry>>
    /\ UNCHANGED <<gvars, svars, jvars>>

\* Variant Middleware: the deferred g.wg.Done()
WDone(h) ==
    /\ wpc[h] = "wdone"
    /\ wgCount' = wgCount - 1
    /\ wpc' = [wpc EXCEPT ![h] = "done"]
    /\ UNCHANGED <<wspc, wd, wret, cleanStart, lateEntry>>
    /\ UNCHANGED <<gvars, hvars, svars, jvars>>

\* Shutdown(ctx) is called on both with the same context. The variant makes
\* d and starts the goroutine that waits for g.wg.
PairShutdown ==
    /\ spc[1] = "idle"
    /\ wspc = "idle"
    /\ \E e \in {"nil"} \cup CtxErrors : ctxErr' = [ctxErr EXCEPT ![1] = e]
    /\ spc' = [spc EXCEPT ![1] = "lock"]
    /\ wspc' = "select"
    /\ wd' = "open"
    /\ cleanStart' = (Entering = {} /\ \A h \in Handlers : wpc[h] # "add")
    /\ UNCHANGED <<ret, sawActive>>
    /\ UNCHANGED <<wpc, wgCount, wret, lateEntry>>
    /\ UNCHANGED <<gvars, hvars, jvars>>

\* WWaiter without the wait for the counter.
WWaiter_NoWait ==
    /\ wd = "open"
    /\ wd' = "closed"
    /\ UNCHANGED <<wpc, wgCount, wspc, wret, cleanStart, lateEntry>>
    /\ UNCHANGED <<gvars, hvars, svars, jvars>>

\* Variant Shutdown's goroutine: g.wg.Wait() returns when the counter is 0;
\* close(d).
WWaiter ==
    /\ wd = "open"
    /\ wgCount = 0
    /\ wd' = "closed"
    /\ UNCHANGED <<wpc, wgCount, wspc, wret, cleanStart, lateEntry>>
    /\ UNCHANGED <<gvars, hvars, svars, jvars>>

\* Variant Shutdown: select { case <-d: return nil }
WSelectD ==
    /\ wspc = "select"
    /\ RecvReady(wd)
    /\ wret' = "nil"
    /\ wspc' = "done"
    /\ UNCHANGED <<wpc, wgCount, wd, cleanStart, lateEntry>>
    /\ UNCHANGED <<gvars, hvars, svars, jvars>>

\* Variant Shutdown: select { case <-ctx.Done(): return ctx.Err() }
WSelectCtx ==
    /\ wspc = "select"
    /\ CtxIsDone(1)
    /\ wret' = ctxErr[1]
    /\ wspc' = "done"
    /\ UNCHANGED <<wpc, wgCount, wd, cleanStart, lateEntry>>
    /\ UNCHANGED <<gvars, hvars, svars, jvars>>

\* The steps the variant takes by itself.
WStep ==
    \/ \E h \in Handlers : WAdd(h)
    \/ \E h \in Handlers : WDone(h)
    \/ WWaiter
    \/ WSelectD
    \/ WSelectCtx

----------------------------------------------------------------------------
(* Specifications *)

\* The steps the wrapper's own code takes once it was invoked.
WrapperStep(h) ==
    \/ AddLock(h)
    \/ AddCheck(h)
    \/ AddLoad(h)
    \/ AddStore(h)
    \/ Reject(h)
    \/ ServeNext(h)
    \/ RemLock(h)
    \/ RemLoad(h)
    \/ RemStore(h)
    \/ RemCheck(h)

\* The inner handler (next.ServeHTTP) comes to its end.
InnerFinish(h) ==
    \/ HandlerReturn(h)
    \/ HandlerPanic(h)

\* The steps a Shutdown call takes by itself once it was called.
SdStep(c) ==
    \/ SdLock(c)
    \/ SdSet(c)
    \/ SdCheck(c)
    \/ SdSelectClosed(c)
    \/ SdSelectCtx(c)

Next ==
    \/ \E h \in Handlers : HandlerInvoke(h)
    \/ \E h \in Handlers : WrapperStep(h)
    \/ \E h \in Handlers : InnerFinish(h)
    \/ \E c \in Calls : SdCall(c)
    \/ \E c \in Calls : CtxDone(c)
    \/ \E c \in Calls : SdStep(c)

Spec == Init /\ [][Next]_vars

\* The orchestrator shuts down through ShutdownWithServer: its goroutine makes
\* the one Shutdown call of the run.
JoinNext ==
    \/ \E h \in Handlers : HandlerInvoke(h)
    \/ \E h \in Handlers : WrapperStep(h)
    \/ \E h \in Handlers : InnerFinish(h)
    \/ JCall
    \/ JGoShutdown
    \/ \E c \in Calls : CtxDone(c)
    \/ \E c \in Calls : SdStep(c)
    \/ JGoFinish
    \/ JServerReturn
    \/ JWait
    \/ JReturn

JoinSpec == Init /\ [][JoinNext]_vars

\* Both implementations side by side, with one Shutdown call.
PairNext ==
    \/ \E h \in Handlers : PairInvoke(h)
    \/ \E h \in Handlers : WrapperStep(h)
    \/ \E h \in Handlers : PairFinish(h)
    \/ PairShutdown
    \/ CtxDone(1)
    \/ SdStep(1)
    \/ WStep

PairSpec == Init /\ [][PairNext]_vars

\* The instance is made by NewShutdowner or declared as a zero value.
InitAnyInstance ==
    /\ NewShutdowner \/ ZeroValue
    /\ hpc = [h \in Handlers |-> "idle"]
    /\ hreg = [h \in Handlers |-> 0]
    /\ added = [h \in Handlers |-> "none"]
    /\ status = [h \in Handlers |-> 0]
    /\ nextCalled = [h \in Handlers |-> FALSE]
    /\ hpanic = [h \in Handlers |-> FALSE]
    /\ removes = [h \in Handlers |-> 0]
    /\ spc = [c \in Calls |-> "idle"]
    /\ ctxErr = [c \in Calls |-> "nil"]
    /\ ret = [c \in Calls |-> "none"]
    /\ sawActive = [c \in Calls |-> -1]
    /\ closeCalls = 0
    /\ NotJoining
    /\ VariantIdle

AnyInstanceSpec == InitAnyInstance /\ [][Next]_vars

\* The Go scheduler runs every runnable goroutine and sync.Mutex hands the
\* lock to its waiters: the wrapper's code and Shutdown's code make progress.
\* Requests, Shutdown calls, context expiry and the time an inner handler
\* takes are the environment's and get no fairness.
Fairness ==
    /\ \A h \in Handlers : WF_vars(WrapperStep(h))
    /\ \A c \in Calls : WF_vars(SdStep(c))

FairSpec == Spec /\ Fairness

\* Every inner handler that was started comes to its end.
HandlersFinish == \A h \in Handlers : WF_vars(InnerFinish(h))

FinishingSpec == FairSpec /\ HandlersFinish

----------------------------------------------------------------------------
(* Derived notions *)

\* The invocations that were admitted and have not exited: the counter was
\* incremented for them and not yet decremented.
InFlight ==
    {h \in Handlers : hpc[h] \in {"admitted", "serve", "rem_lock", "rem_load", "rem_store"}}

\* The invocations whose inner handler is running.
Running == {h \in Handlers : hpc[h] = "serve"}

TypeOK ==
    /\ lock \in BOOLEAN
    /\ closed \in {"nil", "open", "closed"}
    /\ shutdownRequested \in BOOLEAN
    /\ activeConnections \in Int
    /\ added \in [Handlers -> {"none", "true", "false"}]
    /\ status \in [Handlers -> {0, StatusServiceUnavailable}]
    /\ removes \in [Handlers -> Nat]
    /\ ctxErr \in [Calls -> {"nil"} \cup CtxErrors]
    /\ ret \in [Calls -> {"none", "nil"} \cup CtxErrors]
    /\ closeCalls \in Nat

\* The run has had a single Shutdown call so far.
SingleShutdownCall == \A c \in Calls : c > 1 => spc[c] = "idle"

----------------------------------------------------------------------------
(* Claims *)

\* C1: in every state where a Shutdown call has returned nil, activeConnections
\* is 0, no admitted inner handler is still running, and every admitted
\* invocation has made its one removeActiveConnection call and finished it.
ShutdownNilOnlyWhenDrained ==
    \A c \in Calls :
        ret[c] = "nil" =>
            /\ activeConnections = 0
            /\ InFlight = {}
            /\ \A h \in Handlers :
                  added[h] = "true" => removes[h] = 1 /\ hpc[h] = "done"

\* C1 witness: Shutdown found two admitted handlers in flight and returned nil
\* after both had exited.
ShutdownNilAfterTwoExits ==
    /\ sawActive[1] = 2
    /\ ret[1] = "nil"
    /\ Cardinality({h \in Handlers : removes[h] = 1 /\ hpc[h] = "done"}) >= 2

\* C2: an addActiveConnection that holds the lock while shutdownRequested is
\* true returns false and leaves activeConnections, shutdownRequested and the
\* closed channel as they are; once shutdownRequested is true no invocation
\* becomes admitted and the counter does not grow.
AddRejectsAfterShutdown ==
    [][ /\ \A h \in Handlers :
              (hpc[h] = "add_check" /\ shutdownRequested /\ hpc'[h] # hpc[h]) =>
                  /\ added'[h] = "false"
                  /\ activeConnections' = activeConnections
                  /\ shutdownRequested' = shutdownRequested
                  /\ closed' = closed
        /\ shutdownRequested =>
              /\ \A h \in Handlers : added'[h] = "true" => added[h] = "true"
              /\ activeConnections' <= activeConnections
      ]_vars

\* C2 witness: an invocation was refused by addActiveConnection while another,
\* admitted earlier, is still in flight.
AddRefusedDuringDrain ==
    /\ \E h \in Handlers : added[h] = "false"
    /\ activeConnections = 1
    /\ shutdownRequested

\* C6: while the run has had a single Shutdown call, close(g.closed) has been
\* executed at most once, and only with shutdownRequested true.
SignalFiresOnceAfterRequest ==
    SingleShutdownCall =>
        /\ closeCalls <= 1
        /\ closeCalls = 1 <=> closed = "closed"
        /\ closed = "closed" => shutdownRequested

\* C6 witness: the channel was closed by the last removeActiveConnection,
\* after a Shutdown call that found handlers in flight.
SignalFiredByLastRemove ==
    /\ SingleShutdownCall
    /\ sawActive[1] > 0
    /\ closed = "closed"
    /\ closeCalls = 1

\* C8: an invocation has made no removeActiveConnection call before its inner
\* handler completes, and exactly one from then on if it was admitted, also
\* when the inner handler panicked; an invocation that was not admitted makes
\* none.
RemoveExactlyOnce ==
    \A h \in Handlers :
        /\ hpc[h] \in {"idle", "add_lock", "add_check", "add_load", "add_store",
                       "reject", "admitted", "serve"} => removes[h] = 0
        /\ hpc[h] \in {"rem_lock", "rem_load", "rem_store", "rem_check"} =>
              removes[h] = 1 /\ added[h] = "true"
        /\ hpc[h] = "done" => removes[h] = (IF added[h] = "true" THEN 1 ELSE 0)

\* C8 witness: an admitted invocation whose inner handler panicked has
\* finished with one removeActiveConnection call.
RemovedOnceAfterPanic ==
    \E h \in Handlers :
        /\ hpc[h] = "done"
        /\ added[h] = "true"
        /\ hpanic[h]
        /\ removes[h] = 1

\* C9: an invocation for which addActiveConnection returned false never
\* invokes the inner handler and never calls removeActiveConnection, and it
\* has answered 503 when it is done.
RejectedGets503 ==
    \A h \in Handlers :
        added[h] = "false" =>
            /\ hpc[h] \in {"reject", "done"}
            /\ ~nextCalled[h]
            /\ removes[h] = 0
            /\ hpc[h] = "done" => status[h] = StatusServiceUnavailable

\* C9 witness: a refused invocation has finished with status 503.
RejectedHandlerDone ==
    \E h \in Handlers :
        /\ added[h] = "false"
        /\ hpc[h] = "done"
        /\ status[h] = StatusServiceUnavailable

\* C10: in every state activeConnections is the number of admitted
\* invocations that have not exited; it is never negative.
CounterMatchesInFlight ==
    /\ activeConnections = Cardinality(InFlight)
    /\ activeConnections >= 0

\* C10 witness: two invocations are in flight while a Shutdown call holds
\* the lock and one of the two waits for it to decrement.
CounterTwoUnderContention ==
    /\ activeConnections = 2
    /\ \E c \in Calls : spc[c] = "check"
    /\ \E h \in Handlers : hpc[h] = "rem_lock"

DeadlineReported ==
    /\ [](\A c \in Calls :
            (spc[c] = "done" /\ InFlight # {}) =>
                /\ CtxIsDone(c)
                /\ ret[c] = ctxErr[c]
                /\ ret[c] \in CtxErrors)
    /\ []<>(\A c \in Calls : ~(spc[c] = "select" /\ CtxIsDone(c)))

\* C4 witness: Shutdown returned Canceled while the inner handler of an
\* admitted invocation is still running.
CanceledWhileHandlerRuns ==
    \E c \in Calls :
        /\ spc[c] = "done"
        /\ ret[c] = "Canceled"
        /\ Running # {}

\* C5: under fair scheduling and with every started inner handler finishing,
\* the first Shutdown call returns nil unless its context becomes done,
\* however its steps interleave with the handlers' removeActiveConnection.
NoLostWakeup ==
    (spc[1] = "lock") ~> (ret[1] = "nil" \/ CtxIsDone(1))

\* C5 witness: Shutdown found a handler in flight, its context never became
\* done, and it returned nil after the last removeActiveConnection.
WokenByLastRemove ==
    /\ sawActive[1] >= 1
    /\ ~CtxIsDone(1)
    /\ ret[1] = "nil"

\* C7 as stated: a Shutdown call made after an earlier call returned its
\* context's error with handlers in flight does not fail, does not close the
\* channel a second time, and has returned nil if it has returned with all
\* admitted handlers gone and its own context not done.
StaysWaitableAfterFailedWait ==
    \A c \in Calls :
        (c > 1 /\ ret[c - 1] \in CtxErrors /\ sawActive[c - 1] > 0) =>
            /\ spc[c] # "panicked"
            /\ closeCalls <= 1
            /\ (spc[c] = "done" /\ InFlight = {} /\ ~CtxIsDone(c)) => ret[c] = "nil"

\* C13 as stated: on a zero-value Shutdowner no close panics and no Shutdown
\* call fails, and a Shutdown call that has returned with every admitted
\* handler gone and its context not done has returned nil.
ZeroValueSupportsProtocol ==
    closed = "nil" =>
        /\ closeCalls = 0
        /\ \A c \in Calls :
              /\ spc[c] # "panicked"
              /\ (spc[c] = "done" /\ InFlight = {} /\ ~CtxIsDone(c)) => ret[c] = "nil"

\* C14 as stated: a Shutdown call made after an earlier call returned nil
\* does not fail, does not close the channel again, and returns nil.
SecondShutdownIdempotent ==
    \A c \in Calls :
        (c > 1 /\ ret[c - 1] = "nil") =>
            /\ spc[c] # "panicked"
            /\ closeCalls <= 1
            /\ spc[c] = "done" => ret[c] = "nil" \/ CtxIsDone(c)

\* C15: while the run has had a single Shutdown call, in every state in which
\* the mutex is free the channel is closed exactly when shutdownRequested is
\* true and activeConnections is 0; a closed channel stays closed.
SignalIffDrained ==
    /\ []((SingleShutdownCall /\ ~lock) =>
            (closed = "closed" <=> (shutdownRequested /\ activeConnections = 0)))
    /\ [][closed = "closed" => closed' = "closed"]_vars

\* C15 witness: the mutex is free and the channel is closed after the handler
\* that Shutdown found in flight has exited.
SignalFiredLockFree ==
    /\ SingleShutdownCall
    /\ ~lock
    /\ closed = "closed"
    /\ sawActive[1] = 1
    /\ spc[1] = "select"

\* C16: an invocation is either refused (addActiveConnection returned false:
\* the inner handler is never invoked, the answer is 503) or admitted, and
\* while an admitted invocation has not finished its inner handler no Shutdown
\* call has returned nil; no inner handler is invoked once a Shutdown call
\* has returned nil.
AdmittedOrRejected ==
    /\ [](\A h \in Handlers :
            /\ added[h] = "false" =>
                  /\ ~nextCalled[h]
                  /\ hpc[h] = "done" => status[h] = StatusServiceUnavailable
            /\ nextCalled[h] => added[h] = "true"
            /\ (added[h] = "true" /\ hpc[h] \in {"admitted", "serve"}) =>
                  \A c \in Calls : ret[c] # "nil")
    /\ [][(\E c \in Calls : ret[c] = "nil") =>
              \A h \in Handlers : nextCalled'[h] = nextCalled[h]]_vars

\* C16 witness: of two invocations racing with Shutdown one was refused and
\* one admitted; Shutdown returned nil after the admitted one had exited.
OneRefusedOneAwaited ==
    /\ \E h \in Handlers : added[h] = "false" /\ hpc[h] = "done"
    /\ \E h \in Handlers : added[h] = "true" /\ hpc[h] = "done"
    /\ sawActive[1] = 1
    /\ ret[1] = "nil"

\* The invocations that hold g.lock.
InCritical ==
    {h \in Handlers : hpc[h] \in {"add_check", "add_load", "add_store",
                                  "rem_load", "rem_store", "rem_check"}}

\* C17: while a Shutdown call waits in its select it does not hold the mutex:
\* the mutex is held only by an invocation inside addActiveConnection or
\* removeActiveConnection, and every invocation in one of the two can take a
\* step unless another invocation holds the mutex.
ShutdownWaitsUnlocked ==
    \A c \in Calls :
        spc[c] = "select" =>
            /\ lock => InCritical # {}
            /\ \A h \in Handlers :
                  (hpc[h] \in {"add_lock", "rem_lock"} /\ InCritical = {}) =>
                      ENABLED WrapperStep(h)
            /\ \A h \in InCritical : ENABLED WrapperStep(h)

\* C17 witness: while Shutdown waits in its select one invocation is inside
\* removeActiveConnection and another waits for the mutex.
RemoveRunsWhileShutdownWaits ==
    /\ \E c \in Calls : spc[c] = "select"
    /\ \E h \in Handlers : hpc[h] = "rem_store"
    /\ \E h \in Handlers : hpc[h] \in {"add_lock", "rem_lock"}

\* C18: no step takes shutdownRequested from true back to false.
ShutdownRequestedStaysTrue ==
    [][shutdownRequested => shutdownRequested']_vars

\* C18 witness: after a Shutdown call that returned its context's error, an
\* invocation was refused and a second Shutdown call waits, the flag still set.
FlagSetAcrossCalls ==
    /\ ret[1] \in CtxErrors
    /\ spc[2] = "select"
    /\ \E h \in Handlers : added[h] = "false"
    /\ shutdownRequested

\* C11: ShutdownWithServer gets past its wg.Wait only when server.Shutdown
\* has returned and the Shutdowner's Shutdown has returned and its result is
\* stored; the two run concurrently: while server.Shutdown runs it can return
\* whatever the goroutine has done, and the goroutine can call Shutdown
\* whatever server.Shutdown has done.
JoinWaitsForBoth ==
    /\ jpc \in {"join", "done"} =>
          /\ spc[1] = "done"
          /\ jwg = 0
          /\ shutdownerErr = ret[1]
    /\ jpc = "server" => ENABLED JServerReturn
    /\ (jpc \in {"server", "wait"} /\ spc[1] = "idle") => ENABLED JGoShutdown

\* C11 witness: the Shutdowner's Shutdown has set shutdownRequested and waits
\* in its select while server.Shutdown has not returned.
FlagSetBeforeServerReturns ==
    /\ jpc = "server"
    /\ shutdownRequested
    /\ spc[1] = "select"

\* C12: what ShutdownWithServer returns is nil exactly when server.Shutdown
\* and the Shutdowner's Shutdown both returned nil; otherwise it holds every
\* error that is not nil, the server's first, and nothing else.
JoinKeepsBothErrors ==
    jpc = "done" =>
        /\ jret = <<>> <=> (serverErr = "nil" /\ ret[1] = "nil")
        /\ (serverErr # "nil" /\ ret[1] # "nil") => jret = <<serverErr, ret[1]>>
        /\ (serverErr # "nil" /\ ret[1] = "nil") => jret = <<serverErr>>
        /\ (serverErr = "nil" /\ ret[1] # "nil") => jret = <<ret[1]>>

\* C12 witness: both procedures failed and ShutdownWithServer returned both
\* errors.
JoinReturnedTwoErrors ==
    /\ jpc = "done"
    /\ Len(jret) = 2
    /\ jret[1] = "ListenerError"
    /\ jret[2] = "DeadlineExceeded"

\* No invocation is inside an admission or a removal in either implementation.
PairQuiet ==
    \A h \in Handlers :
        /\ hpc[h] \in {"idle", "serve", "done"}
        /\ wpc[h] \in {"idle", "serve", "done"}

\* The Shutdown call of the mutex implementation has returned nil, or returns
\* nil by its own steps with no further event.
MutexCanReturnNil ==
    \/ ret[1] = "nil"
    \/ spc[1] = "select" /\ RecvReady(closed)
    \/ spc[1] \in {"lock", "set", "check"} /\ activeConnections = 0

\* The same of the WaitGroup variant.
VariantCanReturnNil ==
    \/ wret = "nil"
    \/ wspc = "select" /\ (RecvReady(wd) \/ wgCount = 0)

\* What the two implementations have in common at a quiet point: the same
\* invocations run their inner handler, none was refused, the counters are
\* equal, and one Shutdown call returns nil exactly when the other can.
VariantsAgree ==
    /\ \A h \in Handlers : hpc[h] = wpc[h]
    /\ \A h \in Handlers : added[h] # "false"
    /\ activeConnections = wgCount
    /\ (spc[1] \notin {"idle", "done"} /\ wspc = "select") =>
          (MutexCanReturnNil <=> VariantCanReturnNil)
    /\ (ret[1] = "nil" /\ wspc = "select") => VariantCanReturnNil
    /\ (wret = "nil" /\ spc[1] \notin {"idle", "done"}) => MutexCanReturnNil

\* C19 as stated: whenever no invocation began after Shutdown was called, the
\* two implementations agree at every quiet point.
AgreeWithoutLateEntry ==
    (~lateEntry /\ PairQuiet) => VariantsAgree

\* C19: when no invocation began after Shutdown was called and none was
\* between its entry and its admission at the call, the two implementations
\* agree at every quiet point: the same invocations run their inner handler,
\* the counter equals the WaitGroup counter, and Shutdown returns nil in one
\* exactly when it can in the other. The WaitGroup variant admits every
\* invocation whenever it began.
AgreeWhenAdmittedBeforeCall ==
    /\ (~lateEntry /\ cleanStart /\ PairQuiet) => VariantsAgree
    /\ \A h \in Handlers : wpc[h] = "add" => ENABLED WAdd(h)

\* C19 witness: two invocations were admitted by both implementations before
\* Shutdown was called, both inner handlers returned afterwards, and both
\* Shutdown calls returned nil.
BothDrainedAndReturnedNil ==
    /\ ~lateEntry
    /\ cleanStart
    /\ PairQuiet
    /\ \A h \in Handlers : h <= 2 => (removes[h] = 1 /\ wpc[h] = "done")
    /\ sawActive[1] = 2
    /\ ret[1] = "nil"
    /\ wret = "nil"

====
